---- MODULE Spec2Model ----
(***************************************************************************)
(* The arXiv -> Discord digest pipeline of arxiv2discord_improved.py and   *)
(* arXiv2discord_semantic_test.py: harvest, select, synthesize, publish.   *)
(*                                                                         *)
(* Strings whose content decides a branch (titles, abstracts, keywords)    *)
(* are sequences of one-character strings.  A text handed to post_discord  *)
(* is the sequence of its lines (text.split('\n')); a line is a record     *)
(* [tag, ref, len]: what the line is, the candidate it is about (0: none)  *)
(* and its length in characters.                                           *)
(***************************************************************************)
EXTENDS Integers, Sequences, FiniteSets, TLC

VARIABLES
    variant,     \* which script runs: "improved" or "semantic"
    webhook,     \* DISCORD_WEBHOOK is set
    pc,          \* position of main()
    fetchRes,    \* outcome of the listing GET ("none" before it)
    items,       \* parse_arxiv's result: sequence of entries
    candidates,  \* the selection: sequence of positions in items
    selRes,      \* outcome of the selection model process
    selOut,      \* numbers found in the selection model's stdout
    llmCalls,    \* external model processes started, in order
    genRes,      \* outcome of the generative process ("none" before it)
    genOut,      \* the generative process's stdout, as its lines
    pubKind,     \* which text post_discord is publishing
    pubText,     \* the text post_discord was called with
    chunks,      \* post_discord's chunks: sequences of line positions
    idx,         \* post_discord's loop index (1-based)
    posted,      \* every webhook request made, in order
    printed,     \* what was written to standard output, in order
    arg,         \* the arguments of a function called on its own
    ret          \* what that function returned

vars == <<variant, webhook, pc, fetchRes, items, candidates, selRes, selOut,
          llmCalls, genRes, genOut, pubKind, pubText, chunks, idx, posted, printed,
          arg, ret>>

(***************************************************************************)
(* Bounds of the model.                                                    *)
(***************************************************************************)
MaxLines == 3
MaxExtra == 1
MaxResp == 3

\* Line lengths tried by the publisher: around the budget and well below it.
LineLens == {0, 5, 940, 1890, 1900, 2000}

----------------------------------------------------------------------------
(***************************************************************************)
(* Strings.                                                                *)
(***************************************************************************)
RECURSIVE lstrip(_)
lstrip(s) == IF s # <<>> /\ Head(s) = " " THEN lstrip(Tail(s)) ELSE s

RECURSIVE rstrip(_)
rstrip(s) ==
    IF s # <<>> /\ s[Len(s)] = " " THEN rstrip(SubSeq(s, 1, Len(s) - 1)) ELSE s

strip(s) == rstrip(lstrip(s))

\* s.rsplit(" ", 1)[0]: s up to its last space, or all of s when it has none.
rsplit1(s) ==
    LET sp == {p \in 1..Len(s) : s[p] = " "}
    IN  IF sp = {} THEN s
        ELSE SubSeq(s, 1, (CHOOSE p \in sp : \A q \in sp : q <= p) - 1)

_truncate(s, max_chars) ==
    LET t == strip(s)
    IN  IF Len(t) <= max_chars THEN t
        ELSE rsplit1(SubSeq(t, 1, max_chars)) \o <<".", ".", ".">>

\* pattern p occurs in text t (re.search of a literal pattern)
Occurs(p, t) ==
    \E k \in 0..(Len(t) - Len(p)) : \A j \in 1..Len(p) : t[k + j] = p[j]

----------------------------------------------------------------------------
(***************************************************************************)
(* Entries and the keyword set.  The vocabulary is cut down to a few       *)
(* letters: "gx" stands for a one-word keyword, "a n" for a keyword with   *)
(* a space in it ("black hole mass").                                      *)
(***************************************************************************)
KEYWORDS == {<<"g", "x">>, <<"a", " ", "n">>}

KEYWORDS_RE_search(text) == \E p \in KEYWORDS : Occurs(p, text)

CATEGORIES_OK == {"astro-ph.GA", "astro-ph.CO", "astro-ph.HE", "astro-ph"}

\* the category strings that contain "astro-ph"; parse_arxiv yields no other
AstroPhCats == CATEGORIES_OK \cup {"astro-ph.SR"}

\* keyword in the abstract only
EntryAbs == [title |-> <<"q">>, abstract |-> <<"q", " ", "g", "x">>,
             link |-> 32, primary_cat |-> "astro-ph.GA"]
\* keyword only across the title/abstract join
EntryJoin == [title |-> <<"q", " ", "a">>, abstract |-> <<"n", " ", "q">>,
              link |-> 32, primary_cat |-> "astro-ph"]
\* no keyword
EntryNone == [title |-> <<"q", " ", "x">>, abstract |-> <<"g", " ", "a">>,
              link |-> 32, primary_cat |-> "astro-ph.SR"]

EntryKinds == {EntryAbs, EntryJoin, EntryNone}

RECURSIVE SeqsUpTo(_, _)
SeqsUpTo(S, n) ==
    IF n = 0 THEN {<<>>}
    ELSE LET shorter == SeqsUpTo(S, n - 1)
         IN  shorter \cup {Append(s, x) : s \in {t \in shorter : Len(t) = n - 1}, x \in S}

----------------------------------------------------------------------------
(***************************************************************************)
(* Selection.  A selection is a sequence of positions in items: the list   *)
(* of references to items' entries that the code returns.                  *)
(***************************************************************************)
LIMIT_KW == 8
LIMIT_LLM == 5
MIN_VALID == 3

Positions(its) == [k \in 1..Len(its) |-> k]

Take(s, n) == SubSeq(s, 1, IF Len(s) < n THEN Len(s) ELSE n)

\* f"{title} {abstract}"
KeywordText(it) == it.title \o <<" ">> \o it.abstract

kw_ok(it) == KEYWORDS_RE_search(KeywordText(it))

cat_ok(it) == it.primary_cat \in CATEGORIES_OK \/ it.primary_cat \in AstroPhCats

\* filter_candidates without the final [:8]
filter_candidates_NoCap(its) ==
    LET keep(k) == cat_ok(its[k]) /\ kw_ok(its[k])
    IN  SelectSeq(Positions(its), keep)

\* filter_candidates of arxiv2discord_improved.py
filter_candidates(its) ==
    LET keep(k) == cat_ok(its[k]) /\ kw_ok(its[k])
    IN  Take(SelectSeq(Positions(its), keep), LIMIT_KW)

\* the fallback as positional truncation instead of the keyword filter
keyword_fallback_selection_Truncate(its) == Take(Positions(its), LIMIT_LLM)

\* keyword_fallback_selection of arXiv2discord_semantic_test.py
keyword_fallback_selection(its) ==
    LET keep(k) == kw_ok(its[k])
    IN  Take(SelectSeq(Positions(its), keep), LIMIT_LLM)

\* A token of the selection model's stdout: a number or another word.
Num(n) == [isnum |-> TRUE, val |-> n]
Word == [isnum |-> FALSE, val |-> 0]

\* re.findall(r'\b(\d+)\b', output), as integers
RECURSIVE findall_numbers(_)
findall_numbers(out) ==
    IF out = <<>> THEN <<>>
    ELSE IF Head(out).isnum THEN <<Head(out).val>> \o findall_numbers(Tail(out))
    ELSE findall_numbers(Tail(out))

\* [int(n) - 1 for n in numbers if 1 <= int(n) <= len(items)], kept 1-based
selected_indices(its, out) ==
    LET valid(n) == 1 <= n /\ n <= Len(its)
    IN  SelectSeq(findall_numbers(out), valid)

SelResults == {"ok", "nonzero", "timeout", "oserror"}

\* run_llm_selection with the pass-through test off by one (< for <=)
run_llm_selection_Less(its, res, out) ==
    IF Len(its) < LIMIT_LLM THEN Positions(its)
    ELSE IF res # "ok" THEN keyword_fallback_selection(its)
    ELSE IF Len(selected_indices(its, out)) >= MIN_VALID
         THEN Take(selected_indices(its, out), LIMIT_LLM)
         ELSE keyword_fallback_selection(its)

\* run_llm_selection accepting any non-empty list of valid indices
run_llm_selection_AnyValid(its, res, out) ==
    IF Len(its) <= LIMIT_LLM THEN Positions(its)
    ELSE IF res # "ok" THEN keyword_fallback_selection(its)
    ELSE IF Len(selected_indices(its, out)) >= 1
         THEN Take(selected_indices(its, out), LIMIT_LLM)
         ELSE keyword_fallback_selection(its)

\* run_llm_selection without the [:5] on the model's indices
run_llm_selection_NoCap(its, res, out) ==
    IF Len(its) <= LIMIT_LLM THEN Positions(its)
    ELSE IF res # "ok" THEN keyword_fallback_selection(its)
    ELSE IF Len(selected_indices(its, out)) >= MIN_VALID
         THEN selected_indices(its, out)
         ELSE keyword_fallback_selection(its)

\* run_llm_selection, given what the model process did
run_llm_selection(its, res, out) ==
    IF Len(its) <= LIMIT_LLM THEN Positions(its)
    ELSE IF res # "ok" THEN keyword_fallback_selection(its)
    ELSE IF Len(selected_indices(its, out)) >= MIN_VALID
         THEN Take(selected_indices(its, out), LIMIT_LLM)
         ELSE keyword_fallback_selection(its)

----------------------------------------------------------------------------
(***************************************************************************)
(* fallback_list: the text of the fallback report, as its lines.           *)
(***************************************************************************)
PreambleLen == 59
FallbackTitleCap == 100

Line(tag, ref, len) == [tag |-> tag, ref |-> ref, len |-> len]

RECURSIVE fallback_entries(_, _)
fallback_entries(its, cands) ==
    IF cands = <<>> THEN <<>>
    ELSE LET p == its[Head(cands)]
         IN  << Line("title", Head(cands), 2 + Len(_truncate(p.title, FallbackTitleCap))),
                Line("link", Head(cands), 2 + p.link),
                Line("blank", 0, 0) >>
             \o fallback_entries(its, Tail(cands))

\* fallback_list with the link line of each candidate left out
RECURSIVE fallback_titles(_, _)
fallback_titles(its, cands) ==
    IF cands = <<>> THEN <<>>
    ELSE << Line("title", Head(cands),
                 2 + Len(_truncate(its[Head(cands)].title, FallbackTitleCap))),
            Line("blank", 0, 0) >>
         \o fallback_titles(its, Tail(cands))

fallback_list_TitlesOnly(its, cands) ==
    <<Line("preamble", 0, PreambleLen), Line("blank", 0, 0)>>
        \o fallback_titles(its, cands)

fallback_list(its, cands) ==
    <<Line("preamble", 0, PreambleLen), Line("blank", 0, 0)>>
        \o fallback_entries(its, cands)

----------------------------------------------------------------------------
(***************************************************************************)
(* post_discord: chunking and delivery.                                    *)
(***************************************************************************)
Budget == 1900

RECURSIVE SumLens(_, _)
SumLens(text, c) ==
    IF c = <<>> THEN 0 ELSE text[Head(c)].len + SumLens(text, Tail(c))

\* len() of the chunk string: its lines joined by "\n"
ChunkLen(text, c) == IF c = <<>> THEN 0 ELSE SumLens(text, c) + Len(c) - 1

\* the for loop over lines, from line k on, and the final flush
RECURSIVE SplitLoop(_, _, _, _)
SplitLoop(text, k, current_chunk, acc) ==
    LET nonempty == ChunkLen(text, current_chunk) > 0
        flushed  == IF nonempty THEN Append(acc, current_chunk) ELSE acc
    IN  IF k > Len(text) THEN flushed
        ELSE IF ChunkLen(text, current_chunk) + text[k].len + 1 > Budget
             THEN SplitLoop(text, k + 1, <<k>>, flushed)
             ELSE SplitLoop(text, k + 1,
                            IF nonempty THEN Append(current_chunk, k) ELSE <<k>>,
                            acc)

\* SplitLoop with a line that alone exceeds the budget skipped instead of
\* becoming the next chunk
RECURSIVE SplitLoop_DropLong(_, _, _, _)
SplitLoop_DropLong(text, k, current_chunk, acc) ==
    LET nonempty == ChunkLen(text, current_chunk) > 0
        flushed  == IF nonempty THEN Append(acc, current_chunk) ELSE acc
    IN  IF k > Len(text) THEN flushed
        ELSE IF ChunkLen(text, current_chunk) + text[k].len + 1 > Budget
             THEN SplitLoop_DropLong(text, k + 1,
                                     IF text[k].len > Budget THEN <<>> ELSE <<k>>,
                                     flushed)
             ELSE SplitLoop_DropLong(text, k + 1,
                                     IF nonempty THEN Append(current_chunk, k) ELSE <<k>>,
                                     acc)

SplitChunks_DropLong(text) == SplitLoop_DropLong(text, 1, <<>>, <<>>)

SplitChunks(text) == SplitLoop(text, 1, <<>>, <<>>)

RECURSIVE Digits(_)
Digits(n) == IF n < 10 THEN 1 ELSE 1 + Digits(n \div 10)

\* len() of "**Part i/n**\n" (first part) or "**Part i/n (cont.)**\n"
PrefixLen(i, n) ==
    IF n > 1
    THEN 7 + Digits(i) + 1 + Digits(n) + (IF i = 1 THEN 0 ELSE 8) + 3
    ELSE 0

Responses == {"ok", "fail", "error"}

\* main after post_discord returned: print("Done!") after the digest, a plain
\* return after a notice
AfterReturn(out) ==
    /\ pc' = "done"
    /\ printed' = IF pubKind \in {"output", "fallback"} THEN Append(out, "done") ELSE out

PostDiscordEnter ==
    /\ pc = "post"
    /\ IF ~webhook
       THEN /\ AfterReturn(Append(printed, "warn_webhook_not_set"))
            /\ UNCHANGED <<chunks, idx>>
       ELSE /\ chunks' = SplitChunks(pubText)
            /\ idx' = 1
            /\ IF chunks' = <<>>
               THEN AfterReturn(Append(printed, "sending"))
               ELSE /\ pc' = "send"
                    /\ printed' = Append(printed, "sending")
    /\ UNCHANGED <<arg, ret, variant, webhook, fetchRes, items, candidates, selRes, selOut,
                   llmCalls, genRes, genOut, pubKind, pubText, posted>>

\* one pass of the delivery loop: the request for chunk idx and its response
PostDiscordSend(resp) ==
    /\ pc = "send"
    /\ idx <= Len(chunks)
    /\ posted' = Append(posted,
                        [kind  |-> pubKind,
                         part  |-> idx,
                         lines |-> chunks[idx],
                         len   |-> PrefixLen(idx, Len(chunks)) + ChunkLen(pubText, chunks[idx]),
                         resp  |-> resp])
    /\ IF resp = "error"
       THEN IF pubKind = "output"
            THEN \* requests.post raised inside main's try: the except clause
                 /\ pubKind' = "fallback"
                 /\ pubText' = fallback_list(items, candidates)
                 /\ pc' = "post"
                 /\ printed' = Append(printed, "llm_failed")
                 /\ UNCHANGED idx
            ELSE \* the exception leaves main
                 /\ pc' = "crashed"
                 /\ UNCHANGED <<pubKind, pubText, idx, printed>>
       ELSE LET out == IF resp = "fail" THEN Append(printed, "post_failed") ELSE printed
            IN  /\ idx' = idx + 1
                /\ IF idx = Len(chunks)
                   THEN AfterReturn(out)
                   ELSE pc' = "send" /\ printed' = out
                /\ UNCHANGED <<pubKind, pubText>>
    /\ UNCHANGED <<arg, ret, variant, webhook, fetchRes, items, candidates, selRes, selOut,
                   llmCalls, genRes, genOut, chunks>>

----------------------------------------------------------------------------
(***************************************************************************)
(* parse_arxiv.  A document is the sequence of sibling nodes that holds    *)
(* the headings: "h3", "dl" (with its dt/dd pairs) or any other node.      *)
(***************************************************************************)
H3 == [type |-> "h3", pairs |-> <<>>]
Other == [type |-> "p", pairs |-> <<>>]
DL(pairs) == [type |-> "dl", pairs |-> pairs]
Pair(haslink, entry) == [haslink |-> haslink, entry |-> entry]

RECURSIVE EntriesOf(_)
EntriesOf(pairs) ==
    IF pairs = <<>> THEN <<>>
    ELSE (IF Head(pairs).haslink THEN <<Head(pairs).entry>> ELSE <<>>)
         \o EntriesOf(Tail(pairs))

\* h3.find_next_sibling("dl"): position of the first dl after node k, 0 if none
find_next_sibling_dl(doc, k) ==
    LET later == {j \in (k + 1)..Len(doc) : doc[j].type = "dl"}
    IN  IF later = {} THEN 0 ELSE CHOOSE j \in later : \A i \in later : j <= i

RECURSIVE parse_from(_, _)
parse_from(doc, k) ==
    IF k > Len(doc) THEN <<>>
    ELSE IF doc[k].type = "h3" /\ find_next_sibling_dl(doc, k) # 0
         THEN EntriesOf(doc[find_next_sibling_dl(doc, k)].pairs) \o parse_from(doc, k + 1)
         ELSE parse_from(doc, k + 1)

parse_arxiv(doc) == parse_from(doc, 1)

----------------------------------------------------------------------------
(***************************************************************************)
(* run_llama, clean_output and the validity check of main.                 *)
(* Tags of the lines of a model output: "paper" starts with "**Paper:",    *)
(* "overview" holds "Daily Overview:", "echo" starts with a phrase of the  *)
(* prompt, "im_end" starts with the end-of-turn token.                     *)
(***************************************************************************)
MinOutputLen == 100

TextLen(text) == IF text = <<>> THEN 0 ELSE SumLens(text, Positions(text)) + Len(text) - 1

\* str.strip() on a text: empty lines at both ends go
RECURSIVE lstrip_lines(_)
lstrip_lines(t) == IF t # <<>> /\ Head(t).len = 0 THEN lstrip_lines(Tail(t)) ELSE t

RECURSIVE rstrip_lines(_)
rstrip_lines(t) ==
    IF t # <<>> /\ t[Len(t)].len = 0 THEN rstrip_lines(SubSeq(t, 1, Len(t) - 1)) ELSE t

strip_lines(t) == rstrip_lines(lstrip_lines(t))

\* position of the first line with a tag in tags, 0 if none
FirstTagged(t, tags) ==
    LET at == {k \in 1..Len(t) : t[k].tag \in tags}
    IN  IF at = {} THEN 0 ELSE CHOOSE k \in at : \A j \in at : k <= j

CutFrom(t, tags) ==
    IF FirstTagged(t, tags) = 0 THEN t ELSE SubSeq(t, 1, FirstTagged(t, tags) - 1)

DropBefore(t, tags) ==
    IF FirstTagged(t, tags) = 0 THEN t ELSE SubSeq(t, FirstTagged(t, tags), Len(t))

GenResults == {"ok", "nonzero", "timeout", "oserror", "nobin", "nomodel"}

\* run_llama: [raised, text]
run_llama(res, out) ==
    IF res # "ok" THEN [raised |-> TRUE, text |-> <<>>]
    ELSE IF strip_lines(out) = <<>> THEN [raised |-> TRUE, text |-> <<>>]
    ELSE [raised |-> FALSE, text |-> strip_lines(CutFrom(strip_lines(out), {"im_end"}))]

clean_output(text) ==
    strip_lines(CutFrom(DropBefore(text, {"paper", "overview"}), {"echo"}))

\* the validity check without the test for the per-paper marker
output_ok_NoMarker(text) == TextLen(text) >= MinOutputLen

\* not (len(output) < 100 or "**Paper:" not in output)
output_ok(text) == TextLen(text) >= MinOutputLen /\ FirstTagged(text, {"paper"}) # 0

\* the try block of main up to post_discord(output): [ok, text]
synthesize(res, out) ==
    LET r == run_llama(res, out)
        cleaned == clean_output(r.text)
    IN  IF r.raised \/ ~output_ok(cleaned)
        THEN [ok |-> FALSE, text |-> <<>>]
        ELSE [ok |-> TRUE, text |-> cleaned]

----------------------------------------------------------------------------
(***************************************************************************)
(* main.                                                                   *)
(***************************************************************************)
FetchResults == {"ok", "http_error", "transport_error"}

NoticeLen(which) ==
    CASE which = "no_items" -> 34
      [] which = "no_candidates" /\ variant = "improved" -> 40
      [] OTHER -> 31

Notice(which) == <<Line("notice", 0, NoticeLen(which))>>

\* fetch_html and parse_arxiv, and in the semantic variant the check of items
Fetch(res, doc) ==
    /\ pc = "fetch"
    /\ fetchRes' = res
    /\ IF res # "ok"
       THEN \* raise_for_status or requests.get raised: nothing in main catches it
            /\ pc' = "crashed"
            /\ UNCHANGED <<items, pubKind, pubText>>
       ELSE /\ items' = parse_arxiv(doc)
            /\ IF variant = "semantic" /\ items' = <<>>
               THEN /\ pubKind' = "notice"
                    /\ pubText' = Notice("no_items")
                    /\ pc' = "post"
               ELSE /\ pc' = "select"
                    /\ UNCHANGED <<pubKind, pubText>>
    /\ UNCHANGED <<arg, ret, variant, webhook, candidates, selRes, selOut, llmCalls, genRes,
                   genOut, chunks, idx, posted, printed>>

\* main after the selection returned: the check of candidates
AfterSelect ==
    IF candidates' = <<>>
    THEN /\ pubKind' = "notice"
         /\ pubText' = Notice("no_candidates")
         /\ pc' = "post"
    ELSE /\ pc' = "generate"
         /\ UNCHANGED <<pubKind, pubText>>

FilterCandidates ==
    /\ pc = "select"
    /\ variant = "improved"
    /\ candidates' = filter_candidates(items)
    /\ AfterSelect
    /\ UNCHANGED <<arg, ret, variant, webhook, fetchRes, items, selRes, selOut, llmCalls,
                   genRes, genOut, chunks, idx, posted, printed>>

\* res and out: what the selection model process does when it is started
RunLlmSelection(res, out) ==
    /\ pc = "select"
    /\ variant = "semantic"
    /\ IF Len(items) <= LIMIT_LLM
       THEN res = "none" /\ out = <<>> /\ UNCHANGED llmCalls
       ELSE /\ res \in SelResults
            /\ res # "ok" => out = <<>>
            /\ llmCalls' = Append(llmCalls, "select")
    /\ selRes' = res
    /\ selOut' = out
    /\ candidates' = run_llm_selection(items, res, out)
    /\ AfterSelect
    /\ UNCHANGED <<arg, ret, variant, webhook, fetchRes, items, genRes, genOut, chunks, idx,
                   posted, printed>>

\* res and out: what the generative process does
Generate(res, out) ==
    /\ pc = "generate"
    /\ res # "ok" => out = <<>>
    /\ genRes' = res
    /\ genOut' = out
    /\ llmCalls' = IF res \in {"nobin", "nomodel"} THEN llmCalls
                   ELSE Append(llmCalls, "generate")
    /\ IF synthesize(res, out).ok
       THEN /\ pubKind' = "output"
            /\ pubText' = synthesize(res, out).text
            /\ printed' = Append(printed, "generated")
       ELSE /\ pubKind' = "fallback"
            /\ pubText' = fallback_list(items, candidates)
            /\ printed' = Append(printed, "llm_failed")
    /\ pc' = "post"
    /\ UNCHANGED <<arg, ret, variant, webhook, fetchRes, items, candidates, selRes, selOut,
                   chunks, idx, posted>>

----------------------------------------------------------------------------
(***************************************************************************)
(* SpecPub: post_discord alone, called on any text of up to MaxLines lines *)
(***************************************************************************)
TextOf(lens) == [k \in 1..Len(lens) |-> Line("text", 0, lens[k])]

InitPub ==
    /\ variant = "improved"
    /\ webhook \in BOOLEAN
    /\ pc = "post"
    /\ fetchRes = "none"
    /\ items = <<>>
    /\ candidates = <<>>
    /\ selRes = "none"
    /\ selOut = <<>>
    /\ llmCalls = <<>>
    /\ genRes = "none"
    /\ genOut = <<>>
    /\ pubKind = "text"
    /\ pubText \in {TextOf(l) : l \in SeqsUpTo(LineLens, MaxLines) \ {<<>>}}
    /\ chunks = <<>>
    /\ idx = 0
    /\ posted = <<>>
    /\ printed = <<>>
    /\ arg = <<>>
    /\ ret = <<>>

NextPub ==
    \/ PostDiscordEnter
    \/ \E resp \in Responses : PostDiscordSend(resp)

SpecPub == InitPub /\ [][NextPub]_vars

(***************************************************************************)
(* SpecSel: the selection alone, on any harvest of up to limit + MaxExtra  *)
(* entries; the model's stdout is any sequence of up to MaxResp tokens, or *)
(* a full-length sequence of numbers said twice.                           *)
(***************************************************************************)
Limit(v) == IF v = "improved" THEN LIMIT_KW ELSE LIMIT_LLM

\* numbers a response may hold: three valid ones and one beyond the list
RespTokens(n) == {Num(1), Num(3), Num(5), Num(n + 1), Word}

SelOutputs(n) ==
    LET short == SeqsUpTo(RespTokens(n), MaxResp)
    IN  short \cup {r \o r : r \in {t \in short : Len(t) = MaxResp /\ \A k \in 1..Len(t) : t[k].isnum}}

\* the keyword variant is tried on every kind of entry, the model-assisted one
\* on a matching and a non-matching kind
KindsTried(v) == IF v = "improved" THEN EntryKinds ELSE {EntryJoin, EntryNone}

InitSel ==
    /\ variant \in {"improved", "semantic"}
    /\ webhook = TRUE
    /\ pc = "select"
    /\ fetchRes = "ok"
    /\ items \in SeqsUpTo(KindsTried(variant), Limit(variant) + MaxExtra)
    /\ variant = "semantic" => items # <<>>
    /\ candidates = <<>>
    /\ selRes = "none"
    /\ selOut = <<>>
    /\ llmCalls = <<>>
    /\ genRes = "none"
    /\ genOut = <<>>
    /\ pubKind = "none"
    /\ pubText = <<>>
    /\ chunks = <<>>
    /\ idx = 0
    /\ posted = <<>>
    /\ printed = <<>>
    /\ arg = <<>>
    /\ ret = <<>>

NextSel ==
    \/ FilterCandidates
    \/ /\ pc = "select" /\ variant = "semantic"
       /\ \E res \in SelResults \cup {"none"} :
             \E out \in (IF res = "ok" THEN SelOutputs(Len(items)) ELSE {<<>>}) :
                 RunLlmSelection(res, out)

SpecSel == InitSel /\ [][NextSel]_vars

(***************************************************************************)
(* Spec: a whole run of main on a few listings.                            *)
(***************************************************************************)
RECURSIVE Repeat(_, _)
Repeat(x, n) == IF n = 0 THEN <<>> ELSE <<x>> \o Repeat(x, n - 1)

\* a title of two 60-letter words, longer than the cap of the fallback report
EntryLong == [title |-> Repeat("q", 60) \o <<" ">> \o Repeat("q", 60),
              abstract |-> <<"g", "x">>, link |-> 32, primary_cat |-> "astro-ph.GA"]

Docs ==
    { <<>>,
      <<H3, DL(<<Pair(TRUE, EntryLong)>>)>>,
      <<Other, DL(<<Pair(TRUE, EntryAbs)>>)>>,
      <<H3, Other, DL(<<Pair(TRUE, EntryNone), Pair(FALSE, EntryAbs)>>)>>,
      <<H3, DL(<<Pair(TRUE, EntryJoin), Pair(TRUE, EntryNone), Pair(TRUE, EntryAbs)>>)>>,
      <<H3, DL(Repeat(Pair(TRUE, EntryNone), LIMIT_LLM + 1))>>,
      <<H3, DL(Repeat(Pair(TRUE, EntryNone), LIMIT_LLM - 1)
               \o <<Pair(TRUE, EntryAbs), Pair(TRUE, EntryJoin)>>)>> }

RunSelOutputs ==
    { <<>>,
      <<Num(5), Num(1), Num(3)>>,
      <<Num(2), Num(2), Num(2)>>,
      <<Word, Num(7), Num(9), Num(1)>> }

GenOutputs ==
    { <<>>,
      <<Line("im_end", 0, 10)>>,
      <<Line("paper", 0, 40), Line("body", 0, 30)>>,
      <<Line("junk", 0, 200), Line("overview", 0, 150)>>,
      <<Line("junk", 0, 30), Line("paper", 0, 60), Line("body", 0, 200),
        Line("overview", 0, 80), Line("im_end", 0, 10), Line("junk", 0, 50)>>,
      <<Line("paper", 0, 60), Line("body", 0, 100), Line("echo", 0, 30),
        Line("paper", 0, 60)>>,
      <<Line("paper", 0, 1000), Line("body", 0, 1890), Line("overview", 0, 500)>> }

Init ==
    /\ variant \in {"improved", "semantic"}
    /\ webhook \in BOOLEAN
    /\ pc = "fetch"
    /\ fetchRes = "none"
    /\ items = <<>>
    /\ candidates = <<>>
    /\ selRes = "none"
    /\ selOut = <<>>
    /\ llmCalls = <<>>
    /\ genRes = "none"
    /\ genOut = <<>>
    /\ pubKind = "none"
    /\ pubText = <<>>
    /\ chunks = <<>>
    /\ idx = 0
    /\ posted = <<>>
    /\ printed = <<>>
    /\ arg = <<>>
    /\ ret = <<>>

Next ==
    \/ /\ pc = "fetch"
       /\ \E res \in FetchResults :
             \E doc \in (IF res = "ok" THEN Docs ELSE {<<>>}) : Fetch(res, doc)
    \/ FilterCandidates
    \/ /\ pc = "select" /\ variant = "semantic"
       /\ \E res \in SelResults \cup {"none"} :
             \E out \in (IF res = "ok" THEN RunSelOutputs ELSE {<<>>}) :
                 RunLlmSelection(res, out)
    \/ /\ pc = "generate"
       /\ \E res \in GenResults :
             \E out \in (IF res = "ok" THEN GenOutputs ELSE {<<>>}) : Generate(res, out)
    \/ PostDiscordEnter
    \/ \E resp \in Responses : PostDiscordSend(resp)

Spec == Init /\ [][Next]_vars

----------------------------------------------------------------------------
(***************************************************************************)
(* Properties of post_discord.                                             *)
(***************************************************************************)
RECURSIVE Flatten(_)
Flatten(cs) == IF cs = <<>> THEN <<>> ELSE Head(cs) \o Flatten(Tail(cs))

RECURSIVE NonEmptyLines(_, _)
NonEmptyLines(text, ps) ==
    IF ps = <<>> THEN <<>>
    ELSE IF text[Head(ps)].len > 0
         THEN <<Head(ps)>> \o NonEmptyLines(text, Tail(ps))
         ELSE NonEmptyLines(text, Tail(ps))

AllLines(text) == [k \in 1..Len(text) |-> k]

\* post_discord has split pubText into chunks
Chunked == webhook /\ pc \in {"send", "done", "crashed"} /\ idx >= 1

\* C1: once the request for a chunk of a text has failed (non-2xx response or
\* transport error), no request is made for a later chunk of that text.
C1_NoRequestAfterFailedChunk ==
    \A a, b \in DOMAIN posted :
        (a < b /\ posted[a].kind = posted[b].kind) => posted[a].resp = "ok"

\* C9: the content of every request, part prefix included, is at most
\* Budget (1900) characters long.
C9_EveryRequestWithinBudget ==
    \A a \in DOMAIN posted : posted[a].len <= Budget

\* C10: the chunks, taken in sending order, hold every non-empty line of the
\* text exactly once and in the original order; a line longer than the budget
\* is among them.
C10_ChunkingLosesNoLine ==
    Chunked =>
        /\ NonEmptyLines(pubText, Flatten(chunks)) = NonEmptyLines(pubText, AllLines(pubText))
        /\ \A a, b \in DOMAIN Flatten(chunks) :
              a < b => Flatten(chunks)[a] < Flatten(chunks)[b]

\* a text with a line over the budget between two other non-empty lines was
\* split and its last chunk requested
C10_Witness ==
    /\ Chunked
    /\ Len(pubText) = 3
    /\ pubText[1].len > 0 /\ pubText[2].len > Budget /\ pubText[3].len > 0
    /\ Len(chunks) = 3
    /\ Len(posted) = 3

----------------------------------------------------------------------------
(***************************************************************************)
(* Properties of the selection.                                            *)
(***************************************************************************)
Range(f) == {f[k] : k \in DOMAIN f}

\* the entry's title and abstract, joined by a space, hold a keyword
Matches(it) == \E p \in KEYWORDS : Occurs(p, it.title \o <<" ">> \o it.abstract)

MatchesBefore(k) == Cardinality({j \in 1..(k - 1) : Matches(items[j])})

Increasing(s) == \A a, b \in DOMAIN s : a < b => s[a] < s[b]

\* sel holds exactly the matching entries that fewer than limit matching
\* entries precede, in the order of items
KeywordCut(sel, limit) ==
    /\ Increasing(sel)
    /\ \A k \in 1..Len(items) :
          k \in Range(sel) <=> (Matches(items[k]) /\ MatchesBefore(k) < limit)

\* how many tokens of the model's stdout are valid 1-based indices
ValidIndices == Cardinality({k \in DOMAIN selOut :
                    selOut[k].isnum /\ 1 <= selOut[k].val /\ selOut[k].val <= Len(items)})

\* the selection has returned
Selected == pc \notin {"fetch", "select", "crashed"} /\ fetchRes = "ok" /\ items # <<>>

\* the model process was started and failed
SelModelFailed == Selected /\ selRes \in {"nonzero", "timeout", "oserror"}

\* the model process answered with fewer than 3 valid indices
SelModelInvalid == Selected /\ selRes = "ok" /\ ValidIndices < MIN_VALID

\* C4: the candidates of the model-assisted selection are in the relative
\* order of the input entries, whatever the order of the model's numbers.
C4_CandidatesInInputOrder ==
    (Selected /\ variant = "semantic") =>
        \A a, b \in DOMAIN candidates : a < b => candidates[a] <= candidates[b]

C8_KeywordSelectionExact ==
    /\ (Selected /\ variant = "improved") => KeywordCut(candidates, LIMIT_KW)
    /\ SelModelFailed => KeywordCut(candidates, LIMIT_LLM)

\* more matching entries than the limit, of both matching kinds: the last
\* one is cut
C8_Witness ==
    /\ Selected /\ variant = "improved"
    /\ Len(candidates) = LIMIT_KW
    /\ EntryAbs \in Range(items) /\ EntryJoin \in Range(items)
    /\ \E k \in 1..Len(items) : Matches(items[k]) /\ k \notin Range(candidates)

----------------------------------------------------------------------------
(***************************************************************************)
(* Properties of a run.                                                    *)
(***************************************************************************)
\* C2: after a failed listing fetch the run hands the "no papers found"
\* notice to the Publisher and ends without an exception and without having
\* started a model process.
C2_FetchFailureGivesNotice ==
    fetchRes \in {"http_error", "transport_error"} =>
        (pc # "crashed" /\ pubKind = "notice" /\ llmCalls = <<>>)

\* the generative step failed: the process did not end with status 0, or its
\* output is empty, shorter than the minimum or without a per-paper marker
GenFailed ==
    \/ genRes \in GenResults \ {"ok"}
    \/ /\ genRes = "ok"
       /\ \/ TextLen(genOut) < MinOutputLen
          \/ \A k \in DOMAIN genOut : genOut[k].tag # "paper"

ModelTags == {"paper", "body", "junk", "overview", "echo", "im_end"}

RECURSIVE TitleRefs(_)
TitleRefs(text) ==
    IF text = <<>> THEN <<>>
    ELSE (IF Head(text).tag = "title" THEN <<Head(text).ref>> ELSE <<>>)
         \o TitleRefs(Tail(text))

\* C3: whenever the generative step fails, the text handed to the Publisher
\* is the fallback report built from the candidates, no line of the model's
\* output is in it or was sent, and an exception leaves the run only from a
\* delivery request.
C3_GenFailureGivesFallback ==
    GenFailed =>
        /\ pubKind = "fallback"
        /\ pubText[1].tag = "preamble"
        /\ TitleRefs(pubText) = candidates
        /\ \A k \in DOMAIN pubText : pubText[k].tag \notin ModelTags
        /\ \A a \in DOMAIN posted : posted[a].kind = "fallback"
        /\ pc = "crashed" => (posted # <<>> /\ posted[Len(posted)].resp = "error")

\* the generative process timed out and the fallback report was delivered
C3_Witness ==
    /\ genRes = "timeout"
    /\ pc = "done"
    /\ posted # <<>>
    /\ \A a \in DOMAIN posted : posted[a].resp = "ok"

----------------------------------------------------------------------------
(***************************************************************************)
(* Further properties of post_discord, of the selection and of a run.      *)
(***************************************************************************)
\* C11: with no webhook configured, post_discord makes no request and
\* writes the content of the text to standard output.
C11_NoWebhookSurfacesContent ==
    (~webhook /\ pc = "done" /\ pubKind # "none") =>
        (posted = <<>> /\ "content" \in Range(printed))

\* C15: once a chunk of the generated report was sent, no chunk of the
\* fallback report is requested in that run.
C15_OneDigestVariantPublished ==
    \A a, b \in DOMAIN posted :
        (a < b /\ posted[a].kind = "output" /\ posted[a].resp = "ok")
            => posted[b].kind # "fallback"

\* C17: whatever path the selection took, there are at most limit candidates
\* (5 in the model-assisted variant, 8 in the keyword variant) and each one
\* is an entry of the input.
C17_CandidatesBoundedAndFromInput ==
    Selected =>
        /\ Len(candidates) <= Limit(variant)
        /\ \A a \in DOMAIN candidates : candidates[a] \in 1..Len(items)

\* the model named more than limit valid indices and limit of them were kept
C17_Witness ==
    /\ Selected /\ variant = "semantic"
    /\ selRes = "ok"
    /\ ValidIndices > LIMIT_LLM
    /\ Len(candidates) = LIMIT_LLM

\* C19: the model-assisted selection never returns the same input entry
\* (the same position) twice.
C19_NoCandidateTwice ==
    (Selected /\ variant = "semantic") =>
        \A a, b \in DOMAIN candidates : a # b => candidates[a] # candidates[b]

\* the lines of the fallback report about its n-th candidate
EntryLines(n) == SubSeq(pubText, 3 * n, 3 * n + 2)

\* C12 as stated: the fallback report is a preamble followed by one entry per
\* candidate, in candidate order, with that candidate's title, first author
\* and link.
C12_FallbackHasTitleAuthorLink ==
    pubKind = "fallback" =>
        /\ pubText[1].tag = "preamble"
        /\ TitleRefs(pubText) = candidates
        /\ \A n \in DOMAIN candidates :
              \A t \in {"title", "author", "link"} :
                  \E k \in DOMAIN pubText :
                      pubText[k].tag = t /\ pubText[k].ref = candidates[n]

\* C12 as amended: the fallback report is a preamble and an empty line, then
\* for each candidate, in candidate order, a line with its title (cut by
\* _truncate when longer than 100 characters), a line with its link and an
\* empty line; it names no author.
C12_FallbackHasTitleLink ==
    pubKind = "fallback" =>
        /\ pubText[1] = Line("preamble", 0, PreambleLen)
        /\ Len(pubText) = 2 + 3 * Len(candidates)
        /\ \A n \in DOMAIN candidates :
              LET c == candidates[n]
                  title == strip(items[c].title)
              IN  /\ EntryLines(n)[1].tag = "title" /\ EntryLines(n)[1].ref = c
                  /\ IF Len(title) <= FallbackTitleCap
                     THEN EntryLines(n)[1].len = 2 + Len(title)
                     ELSE EntryLines(n)[1].len <= 2 + FallbackTitleCap + 3
                  /\ EntryLines(n)[2] = Line("link", c, 2 + items[c].link)
                  /\ EntryLines(n)[3].len = 0
        /\ \A k \in DOMAIN pubText : pubText[k].tag # "author"

\* a fallback report about several candidates was delivered
C12_Witness ==
    /\ pubKind = "fallback"
    /\ Len(candidates) >= 2
    /\ pc = "done"
    /\ posted # <<>>

----------------------------------------------------------------------------
(***************************************************************************)
(* Functions called on their own: arg holds the arguments, ret the result. *)
(* variant names the script whose function is called.                      *)
(***************************************************************************)
\* main() is not running
Idle ==
    /\ webhook = FALSE
    /\ fetchRes = "none"
    /\ items = <<>>
    /\ candidates = <<>>
    /\ selRes = "none"
    /\ selOut = <<>>
    /\ llmCalls = <<>>
    /\ genRes = "none"
    /\ genOut = <<>>
    /\ pubKind = "none"
    /\ pubText = <<>>
    /\ chunks = <<>>
    /\ idx = 0
    /\ posted = <<>>
    /\ printed = <<>>

Return(value) ==
    /\ pc = "call"
    /\ ret' = value
    /\ pc' = "return"
    /\ UNCHANGED <<arg, variant, webhook, fetchRes, items, candidates, selRes, selOut,
                   llmCalls, genRes, genOut, pubKind, pubText, chunks, idx, posted,
                   printed>>

(***************************************************************************)
(* SpecTruncate: _truncate of the improved and of the open script, on any  *)
(* string of letters and spaces up to MaxStr characters and any cap up to  *)
(* MaxCap.                                                                 *)
(***************************************************************************)
MaxStr == 5
MaxCap == 3

\* the marker _truncate appends: three dots in the improved script; a space
\* and the one-character ellipsis U+2026, written "..." here, in the open one
Ellipsis(v) == IF v = "open" THEN <<" ", "...">> ELSE <<".", ".", ".">>

\* _truncate of arxiv2discord_open.py
_truncate_open(s, max_chars) ==
    LET t == strip(s)
    IN  IF Len(t) <= max_chars THEN t
        ELSE rsplit1(SubSeq(t, 1, max_chars)) \o Ellipsis("open")

InitTruncate ==
    /\ Idle
    /\ variant \in {"improved", "open"}
    /\ pc = "call"
    /\ arg \in [s : SeqsUpTo({"q", " "}, MaxStr), max_chars : 1..MaxCap]
    /\ ret = <<>>

CallTruncate ==
    Return(IF variant = "open" THEN _truncate_open(arg.s, arg.max_chars)
           ELSE _truncate(arg.s, arg.max_chars))

SpecTruncate == InitTruncate /\ [][CallTruncate]_vars

\* the part of a truncated text before the marker
Kept == SubSeq(ret, 1, Len(ret) - Len(Ellipsis(variant)))

EndsWithEllipsis ==
    /\ Len(ret) >= Len(Ellipsis(variant))
    /\ SubSeq(ret, Len(ret) - Len(Ellipsis(variant)) + 1, Len(ret)) = Ellipsis(variant)

\* C13: a text (its surrounding blanks aside) longer than the cap is cut
\* between words, never inside one: what is kept is the start of the text and
\* the character after it is a space, and the result ends with the ellipsis
\* marker; a text no longer than the cap is returned as it is.
C13_TruncateKeepsWholeWords ==
    pc = "return" =>
        LET t == strip(arg.s)
        IN  IF Len(t) <= arg.max_chars THEN ret = t
            ELSE /\ EndsWithEllipsis
                 /\ Kept = SubSeq(t, 1, Len(Kept))
                 /\ t[Len(Kept) + 1] = " "

(***************************************************************************)
(* SpecParse: parse_arxiv on any document of up to MaxNodes sibling nodes. *)
(***************************************************************************)
MaxNodes == 4

Nodes ==
    { H3, Other,
      DL(<<Pair(TRUE, EntryAbs)>>),
      DL(<<Pair(TRUE, EntryJoin), Pair(FALSE, EntryAbs), Pair(TRUE, EntryNone)>>) }

InitParse ==
    /\ Idle
    /\ variant \in {"improved", "semantic"}
    /\ pc = "call"
    /\ arg \in SeqsUpTo(Nodes, MaxNodes)
    /\ ret = <<>>

CallParse == Return(parse_arxiv(arg))

SpecParse == InitParse /\ [][CallParse]_vars

\* the nearest heading before node j of the document, 0 if none
HeadingBefore(doc, j) ==
    LET hs == {k \in 1..(j - 1) : doc[k].type = "h3"}
    IN  IF hs = {} THEN 0 ELSE CHOOSE k \in hs : \A h \in hs : h <= k

\* node j is the first list block after the nearest heading before it
UnderHeading(doc, j) ==
    /\ doc[j].type = "dl"
    /\ HeadingBefore(doc, j) # 0
    /\ \A i \in (HeadingBefore(doc, j) + 1)..(j - 1) : doc[i].type # "dl"

\* the entries of the linked pairs of the list blocks under a heading, from
\* node j on, in document order
RECURSIVE EntriesUnderHeadings(_, _)
EntriesUnderHeadings(doc, j) ==
    IF j > Len(doc) THEN <<>>
    ELSE (IF UnderHeading(doc, j) THEN EntriesOf(doc[j].pairs) ELSE <<>>)
         \o EntriesUnderHeadings(doc, j + 1)

\* how many times e is in the sequence s
RECURSIVE Count(_, _)
Count(e, s) ==
    IF s = <<>> THEN 0 ELSE (IF Head(s) = e THEN 1 ELSE 0) + Count(e, Tail(s))

\* the linked pairs of all the list blocks of the document
RECURSIVE AllEntries(_)
AllEntries(doc) ==
    IF doc = <<>> THEN <<>> ELSE EntriesOf(Head(doc).pairs) \o AllEntries(Tail(doc))

\* C14: parse_arxiv returns exactly the entries of the linked pairs of the
\* list blocks under a heading, each once, in document order, and nothing for
\* a pair without a link; without a heading it returns the empty sequence.
C14_OneEntryPerLinkedPair ==
    pc = "return" =>
        /\ ret = EntriesUnderHeadings(arg, 1)
        /\ (\A k \in DOMAIN arg : arg[k].type # "h3") => ret = <<>>

\* C16: the entries of a list block are never returned twice: no entry is in
\* the result more often than the document's list blocks hold it, and a
\* document whose headings all lack a list block before the next heading
\* gives no entries.
C16_ListBlockHarvestedOnce ==
    pc = "return" =>
        /\ \A e \in Range(ret) : Count(e, ret) <= Count(e, AllEntries(arg))
        /\ (\A j \in DOMAIN arg : ~UnderHeading(arg, j)) => ret = <<>>

(***************************************************************************)
(* build_block of the open script.  A paper has its title, authors and     *)
(* abstract as strings and the lengths of its identifier and its link; the *)
(* block is the sequence of its lines, each with the list and position of  *)
(* its paper and its length.                                               *)
(***************************************************************************)
FIELD_MAX == 300
ABSTRACT_MAX == 600
BUDGET_CHARS == 12000

\* s.replace("\n", " ")
replace_nl(s) == [k \in 1..Len(s) |-> IF s[k] = "\n" THEN " " ELSE s[k]]

\* len of the category name
CatLen(c) == IF c = "astro-ph" THEN 8 ELSE 11

\* len(line) of add_line: six fields joined by five " | "
LineLen(p, abstract_max) ==
    Len(_truncate_open(p.title, FIELD_MAX))
    + Len(_truncate_open(replace_nl(p.authors), FIELD_MAX))
    + p.arxiv_id + p.link + CatLen(p.primary_cat)
    + Len(_truncate_open(replace_nl(p.abstract), abstract_max))
    + 5 * 3

\* one of the two loops of build_block, over the papers ps of list `from`
\* from position k on, with `used` characters taken so far; it ends at the
\* first paper add_line refuses
RECURSIVE add_lines(_, _, _, _, _, _)
add_lines(ps, k, from, used, abstract_max, budget_chars) ==
    IF k > Len(ps) THEN [lines |-> <<>>, used |-> used]
    ELSE LET n == LineLen(ps[k], abstract_max)
         IN  IF used + n + 1 > budget_chars
             THEN [lines |-> <<>>, used |-> used]
             ELSE LET rest == add_lines(ps, k + 1, from, used + n + 1,
                                        abstract_max, budget_chars)
                  IN  [lines |-> <<[from |-> from, pos |-> k, len |-> n]>> \o rest.lines,
                       used |-> rest.used]

build_block(selected, others, abstract_max, budget_chars) ==
    LET first == add_lines(selected, 1, "selected", 0, abstract_max, budget_chars)
        second == add_lines(others, 1, "others", first.used, abstract_max, budget_chars)
    IN  first.lines \o second.lines

(***************************************************************************)
(* SpecBlock: build_block on up to MaxSel selected and MaxOth other papers *)
(* with the default budget and two small ones.                             *)
(***************************************************************************)
MaxSel == 2
MaxOth == 2

PaperShort == [title |-> <<"q">>, authors |-> <<"a", "\n", "b">>, arxiv_id |-> 10,
               link |-> 32, primary_cat |-> "astro-ph.GA", abstract |-> <<"g", "x">>]

PaperLong == [title |-> <<"q">>, authors |-> <<"a">>, arxiv_id |-> 10,
              link |-> 32, primary_cat |-> "astro-ph", abstract |-> [k \in 1..700 |-> "q"]]

\* a paper whose link alone is as long as the default budget
PaperHuge == [title |-> <<"q">>, authors |-> <<"a">>, arxiv_id |-> 10,
              link |-> BUDGET_CHARS, primary_cat |-> "astro-ph", abstract |-> <<"g">>]

Papers == {PaperShort, PaperLong, PaperHuge}

Budgets == {100, 800, BUDGET_CHARS}

InitBlock ==
    /\ Idle
    /\ variant = "open"
    /\ pc = "call"
    /\ arg \in [selected : SeqsUpTo(Papers, MaxSel), others : SeqsUpTo(Papers, MaxOth),
                abstract_max : {ABSTRACT_MAX}, budget_chars : Budgets]
    /\ ret = <<>>

CallBlock ==
    Return(build_block(arg.selected, arg.others, arg.abstract_max, arg.budget_chars))

SpecBlock == InitBlock /\ [][CallBlock]_vars

\* the papers given to build_block, in the order selected then others
GivenOrder ==
    [k \in 1..Len(arg.selected) |-> <<"selected", k>>]
        \o [k \in 1..Len(arg.others) |-> <<"others", k>>]

\* C18: the lines of the block are a prefix of the papers in the order
\* selected then others: build_block stops at the first paper whose line does
\* not fit the budget, so no line of `others` is in the block when a paper of
\* `selected` was left out.
C18_BlockIsPrefixOfOrder ==
    pc = "return" =>
        \E n \in 0..Len(GivenOrder) :
            [k \in 1..Len(ret) |-> <<ret[k].from, ret[k].pos>>] = SubSeq(GivenOrder, 1, n)

====
